---- MODULE Spec2Model ----
(***************************************************************************)
(* Fork-aware EVM simulator (Gealber/evm-simulator).                       *)
(*                                                                         *)
(* The model follows one call of Simulator.Simulate or of                  *)
(* Simulator.SimulateBundle: the orchestration in the simulator package,   *)
(* runtime.Execute, and the interpreter loop EVMInterpreter.Run with its   *)
(* pre-dispatch hooks.  One action is one orchestration step or one        *)
(* iteration of the interpreter loop.                                      *)
(***************************************************************************)
EXTENDS Integers, Sequences, FiniteSets, TLC

\* ------------------------------------------------------------------------
\* Bounds of the model
\* ------------------------------------------------------------------------
MaxAddr == 2            \* addresses are 0 .. MaxAddr
MaxSlot == 1            \* storage slots are 0 .. MaxSlot
MaxTx == 3              \* longest bundle of one repeated transaction
MaxMixed == 2           \* longest bundle of arbitrary transactions
MaxTouch == 3           \* longest touch sequence of the access-list specification

Addr == 0 .. MaxAddr
Slot == 0 .. MaxSlot
Key == Addr \X Slot

\* ------------------------------------------------------------------------
\* Protocol constants (go-ethereum params, EIP-2929 / EIP-2930)
\* ------------------------------------------------------------------------
ColdSloadCost == 2100
WarmStorageReadCost == 100
TxGas == 21000
TxAccessListAddressGas == 2400
TxAccessListStorageKeyGas == 1900

NoErr == "ok"

\* the error of a request the remote node did not answer
FetchError == "network"

\* ------------------------------------------------------------------------
\* State store (state.StateDB) as used by the simulator
\*   exist : addresses that have a state object
\*   trie  : addresses present in the committed trie the store was opened on
\*   code  : code id per address (0 = no code)
\*   bal   : balance per address
\*   stor  : value per (address, slot)
\* ------------------------------------------------------------------------
EmptyState ==
    [exist |-> {}, trie |-> {},
     code |-> [a \in Addr |-> 0],
     bal |-> [a \in Addr |-> 0],
     stor |-> [k \in Key |-> 0]]

Exist(db, a) == a \in db.exist

GetCode(db, a) == db.code[a]

GetCodeSize(db, a) == IF db.code[a] = 0 THEN 0 ELSE 1

GetBalance(db, a) == db.bal[a]

GetState(db, a, s) == db.stor[<<a, s>>]

\* CreateAccount overwrites an existing object with a fresh, empty one.
CreateAccount(db, a) ==
    [db EXCEPT !.exist = @ \cup {a},
               !.code[a] = 0,
               !.bal[a] = 0,
               !.stor = [k \in Key |-> IF k[1] = a THEN 0 ELSE @[k]]]

SetCode(db, a, c) ==
    [db EXCEPT !.exist = @ \cup {a}, !.code[a] = c]

SetBalance(db, a, b) ==
    [db EXCEPT !.exist = @ \cup {a}, !.bal[a] = b]

AddBalance(db, a, d) ==
    [db EXCEPT !.exist = @ \cup {a}, !.bal[a] = @ + d]

SubBalance(db, a, d) ==
    [db EXCEPT !.exist = @ \cup {a}, !.bal[a] = @ - d]

SetState(db, a, s, v) ==
    [db EXCEPT !.exist = @ \cup {a}, !.stor[<<a, s>>] = v]

\* Commit followed by state.New(root, ...): the content is kept and every
\* object becomes part of the trie.
CommitAndReopen(db) == [db EXCEPT !.trie = db.exist]

\* ------------------------------------------------------------------------
\* Remote State Source and the variables of one call
\* ------------------------------------------------------------------------
VARIABLES
    api,                \* "Simulate" or "SimulateBundle"
    simulations,        \* the Simulation values of the call (one for Simulate)
    remote,             \* what the remote node answers: [code, bal, stor]
    state0,             \* content of the caller's state store when the call starts
    prior,              \* the caller's recordInitializer: "nil" or "given"
    pc,                 \* position of the orchestration
    pass,               \* 1 = discovery, 2 = accounting
    txi,                \* index of the current transaction
    stateDB,            \* the state store the current step works on
    originState,        \* content of the caller's store once stateDB was rebound
    rec,                \* the dedup maps shared by records and interpreters
    recordAL,           \* AccessList field of the record handed to Execute
    recordAccessLists,  \* SimulateBundle: access lists captured in pass 1
    in,                 \* interpreter of the current run: accessList, alSet
    frames,             \* call frames of the current run, innermost last
    warm,               \* access list of the state store: warm (address, slot)
    gas,                \* charges of the current run
    cur,                \* locals code and balance of the simulation being run
    run1,               \* outcome of the last finished discovery run
    result,             \* results recorded so far
    rpc,                \* number of requests per fact sent to the remote node
    hist,               \* history: code run, slots written, committed writes, touches
    err                 \* error returned by the call, NoErr while there is none

vars == <<api, simulations, remote, state0, prior, pc, pass, txi, stateDB,
          originState, rec, recordAL, recordAccessLists, in, frames, warm,
          gas, cur, run1, result, rpc, hist, err>>

\* ------------------------------------------------------------------------
\* Keys of AddressStorageSet and addressSlotAccessListSet:
\* address.Hex() + ":" + slot.Hex(), split again by InitIdealState
\* ------------------------------------------------------------------------
SlotSpan == MaxSlot + 1

KeyOf(a, s) == a * SlotSpan + s

KeyAddr(k) == k \div SlotSpan

KeySlot(k) == k % SlotSpan

AllKeys == {KeyOf(k[1], k[2]) : k \in Key}

EmptyRecord == [codeSet |-> {}, balSet |-> {}, storSet |-> <<>>]

\* requests sent to the remote node per fact (code, bal, stor) and requests
\* it answered (codeOk, balOk, storOk)
NoRequests ==
    [code |-> [a \in Addr |-> 0],
     bal |-> [a \in Addr |-> 0],
     stor |-> [k \in Key |-> 0],
     codeOk |-> [a \in Addr |-> 0],
     balOk |-> [a \in Addr |-> 0],
     storOk |-> [k \in Key |-> 0]]

\* ------------------------------------------------------------------------
\* Opcode classes of the interpreter loop
\* ------------------------------------------------------------------------
readStorage(op) == op = "SLOAD"

\* variant: value-carrying calls count as storage opcodes
interactWithStorage_Calls(op) == op \in {"SLOAD", "SSTORE", "CALL", "CALLCODE"}

interactWithStorage(op) == op = "SLOAD" \/ op = "SSTORE"

isCall(op) == op \in {"CALL", "CALLCODE", "DELEGATECALL", "STATICCALL"}

isExtCode(op) == op \in {"EXTCODECOPY", "EXTCODEHASH", "EXTCODESIZE"}

\* A hook works on st = [db, rec, rpc, err]; it returns the same record with
\* err set when it fails.  ok tells whether the remote request succeeds.
HookState(db, r, q) == [db |-> db, rec |-> r, rpc |-> q, err |-> NoErr]

Peek(stack) == stack[Len(stack)]

\* variant: the address replaces the members of CodeSet
InstallCode_Alone(st, addr) ==
    LET db1 == IF ~Exist(st.db, addr) THEN CreateAccount(st.db, addr) ELSE st.db
    IN [st EXCEPT !.db = SetCode(db1, addr, remote.code[addr]),
                  !.rec.codeSet = {addr},
                  !.rpc.codeOk[addr] = @ + 1]

InstallCode(st, addr) ==
    LET db1 == IF ~Exist(st.db, addr) THEN CreateAccount(st.db, addr) ELSE st.db
    IN [st EXCEPT !.db = SetCode(db1, addr, remote.code[addr]),
                  !.rec.codeSet = @ \cup {addr},
                  !.rpc.codeOk[addr] = @ + 1]

\* variant: the slot is fetched again although it is in AddressStorageSet
registerAddressStorage_NoDedup(stack, self, st, ok) ==
    IF Len(stack) < 1 THEN [st EXCEPT !.err = "insufficient elements in stack"]
    ELSE LET slot == Peek(stack)
             key == KeyOf(self, slot)
             asked == [st EXCEPT !.rpc.stor[<<self, slot>>] = @ + 1]
             storage == remote.stor[<<self, slot>>]
         IN IF ~ok THEN [asked EXCEPT !.err = FetchError]
            ELSE [asked EXCEPT
                    !.db = SetState(@, self, slot, storage),
                    !.rec.storSet = (key :> storage) @@ @,
                    !.rpc.storOk[<<self, slot>>] = @ + 1]

registerAddressStorage(stack, self, st, ok) ==
    IF Len(stack) < 1 THEN [st EXCEPT !.err = "insufficient elements in stack"]
    ELSE LET slot == Peek(stack)
             key == KeyOf(self, slot)
         IN IF key \in DOMAIN st.rec.storSet THEN st
            ELSE LET asked == [st EXCEPT !.rpc.stor[<<self, slot>>] = @ + 1]
                     storage == remote.stor[<<self, slot>>]
                 IN IF ~ok THEN [asked EXCEPT !.err = FetchError]
                    ELSE [asked EXCEPT
                            !.db = SetState(@, self, slot, storage),
                            !.rec.storSet = (key :> storage) @@ @,
                            !.rpc.storOk[<<self, slot>>] = @ + 1]

\* uint256 arithmetic, with the word narrowed to WordBits bits
WordBits == 8

Word == 2 ^ WordBits

\* variant: the whole remote balance is added to the local one
topUp_Whole(balance, current) == balance % Word

\* line 468: diff := new(uint256.Int).Sub(balance, currrentStateBalance)
topUp(balance, current) == (balance - current) % Word

registerAddressCodeForCalls(op, stack, st, okCode, okBal) ==
    IF Len(stack) < 3 THEN [st EXCEPT !.err = "insufficient elements in stack"]
    ELSE LET addr == stack[Len(stack) - 1]
         IN IF addr \in st.rec.codeSet THEN st
            ELSE LET asked == [st EXCEPT !.rpc.code[addr] = @ + 1]
                 IN IF ~okCode THEN [asked EXCEPT !.err = FetchError]
                    ELSE LET st1 == InstallCode(asked, addr)
                             value == stack[Len(stack) - 2]
                             currrentStateBalance == GetBalance(st1.db, addr)
                             balanceSetOnce == addr \in st1.rec.balSet
                         IN IF op \in {"CALL", "CALLCODE"}
                               /\ value > currrentStateBalance /\ ~balanceSetOnce
                            THEN LET st2 == [st1 EXCEPT !.rpc.bal[addr] = @ + 1]
                                     st3 == [st2 EXCEPT !.rpc.balOk[addr] = @ + 1]
                                     balance == remote.bal[addr]
                                 IN IF ~okBal THEN [st2 EXCEPT !.err = FetchError]
                                    ELSE IF balance >= value
                                    THEN [st3 EXCEPT
                                            !.db = AddBalance(@, addr,
                                                     topUp(balance, currrentStateBalance)),
                                            !.rec.balSet = @ \cup {addr}]
                                    ELSE st3
                            ELSE st1

registerAddressCodeForExt(stack, st, ok) ==
    IF Len(stack) < 1 THEN [st EXCEPT !.err = "insufficient elements in stack"]
    ELSE LET addr == Peek(stack)
         IN IF addr \in st.rec.codeSet THEN st
            ELSE LET asked == [st EXCEPT !.rpc.code[addr] = @ + 1]
                 IN IF ~ok THEN [asked EXCEPT !.err = FetchError]
                    ELSE InstallCode(asked, addr)

\* ------------------------------------------------------------------------
\* Access list of the interpreter: a sequence of [address, storageKeys]
\* ------------------------------------------------------------------------
\* variant: the slots of AddressStorageSet count as listed already
addressSlotAccessListSet_FromStorage(storSet) == DOMAIN storSet

\* NewEVMInterpreter line 178: a new, empty set whatever the record holds
addressSlotAccessListSet(storSet) == {}

NewInterpreter == [accessList |-> <<>>, alSet |-> {}, returnData |-> -1]

\* variant: the slot is appended without consulting addressSlotAccessListSet
appendToAccessList_NoSet(i, self, slot) ==
    LET hits == {n \in 1 .. Len(i.accessList) : i.accessList[n].address = self}
    IN IF hits # {}
       THEN LET n == CHOOSE x \in hits : \A y \in hits : x <= y
            IN [i EXCEPT !.accessList[n].storageKeys = Append(@, slot)]
       ELSE [i EXCEPT !.accessList =
                        Append(@, [address |-> self, storageKeys |-> <<slot>>])]

appendToAccessList(i, self, slot) ==
    LET key == KeyOf(self, slot)
        hits == {n \in 1 .. Len(i.accessList) : i.accessList[n].address = self}
    IN IF key \in i.alSet THEN i
       ELSE IF hits # {}
       THEN LET n == CHOOSE x \in hits : \A y \in hits : x <= y
            IN [i EXCEPT !.accessList[n].storageKeys = Append(@, slot),
                         !.alSet = @ \cup {key}]
       ELSE [i EXCEPT !.accessList =
                        Append(@, [address |-> self, storageKeys |-> <<slot>>]),
                      !.alSet = @ \cup {key}]

\* ------------------------------------------------------------------------
\* Bytecode.  Code is named by a code id; 0 is the empty code.  The stack
\* holds words, the top is the last element; memory is one 32-byte word.
\* ------------------------------------------------------------------------
I(o) == [op |-> o, arg |-> 0]

PUSH(n) == [op |-> "PUSH", arg |-> n]

Return32 == <<PUSH(0), I("MSTORE"), PUSH(32), PUSH(0), I("RETURN")>>

\* the arguments of a call: retSize, retOffset, inSize, inOffset, [value,] address, gas
CallArgs(value, addr) ==
    <<PUSH(32), PUSH(0), PUSH(32), PUSH(0), PUSH(value), PUSH(addr), PUSH(100000)>>

CallArgsNoValue(addr) ==
    <<PUSH(32), PUSH(0), PUSH(32), PUSH(0), PUSH(addr), PUSH(100000)>>

\* 1: TestSimulate - write the input word to slot 0, read it, return it
StoreLoadCode ==
    <<PUSH(0), I("CALLDATALOAD"), PUSH(0), I("SSTORE"),
      PUSH(0), I("SLOAD")>> \o Return32

\* 2: TestSimulateBundle - add the input word to slot 0, return the slot
AccumulateCode ==
    <<PUSH(0), I("CALLDATALOAD"), PUSH(0), I("SLOAD"), I("ADD"),
      PUSH(0), I("SSTORE"), PUSH(0), I("SLOAD")>> \o Return32

\* 3: read slot 0 twice, return the second value
DoubleLoadCode ==
    <<PUSH(0), I("SLOAD"), I("POP"), PUSH(0), I("SLOAD")>> \o Return32

\* 4: read slot 0, write slot 1, call address 2 with value 0, read slot 0 again
TouchAndCallCode ==
    <<PUSH(0), I("SLOAD"), PUSH(1), I("SSTORE")>>
    \o CallArgs(0, 2) \o <<I("CALL"), I("POP"), PUSH(0), I("SLOAD")>> \o Return32

\* 5: callee - read slot 0, add the input word, write slot 0, return it
CalleeCode ==
    <<PUSH(0), I("SLOAD"), PUSH(0), I("CALLDATALOAD"), I("ADD"),
      PUSH(0), I("SSTORE"), PUSH(0), I("SLOAD")>> \o Return32

\* 6: call address 2 with value 3, then return its result
PayCode ==
    <<PUSH(0), I("CALLDATALOAD"), PUSH(0), I("MSTORE")>>
    \o CallArgs(3, 2) \o <<I("CALL")>> \o Return32

\* 7: size of the code of addresses 1 and 2, then a static call to address 2
ExtCode ==
    <<PUSH(1), I("EXTCODESIZE"), I("POP"), PUSH(2), I("EXTCODESIZE"), I("POP")>>
    \o CallArgsNoValue(2) \o <<I("STATICCALL")>> \o Return32

\* 8: delegate to the code of address 2, then read slot 1 and revert
DelegateCode ==
    CallArgsNoValue(2) \o <<I("DELEGATECALL"), I("POP"), PUSH(1), I("SLOAD"),
      PUSH(0), PUSH(0), I("REVERT")>>

\* 9: write slot 1 only, then stop
StoreOnlyCode ==
    <<PUSH(0), I("CALLDATALOAD"), PUSH(1), I("SSTORE"), I("STOP")>>

\* 10: read slot 1 and return it
LoadOneCode ==
    <<PUSH(1), I("SLOAD")>> \o Return32

\* 11: write 5 to slot 1 and the input word to slot 0, without reading
StoreTwoCode ==
    <<PUSH(5), PUSH(1), I("SSTORE"),
      PUSH(0), I("CALLDATALOAD"), PUSH(0), I("SSTORE"), I("STOP")>>

\* 12: read slot 0, then read slot 1 if the value is not zero, else slot 0
IndirectLoadCode ==
    <<PUSH(0), I("SLOAD"), I("ISZERO"), I("ISZERO"), I("SLOAD")>> \o Return32

\* 13: 11 followed by 12 in one transaction
StoreTwoIndirectCode ==
    <<PUSH(5), PUSH(1), I("SSTORE"),
      PUSH(0), I("CALLDATALOAD"), PUSH(0), I("SSTORE")>> \o IndirectLoadCode

\* 14: delegate to the code of the address named by the input word, then
\* write 5 to slot 1 and 1 to slot 0
DelegateThenStoreCode ==
    <<PUSH(32), PUSH(0), PUSH(32), PUSH(0), PUSH(0), I("CALLDATALOAD"), PUSH(100000),
      I("DELEGATECALL"), I("POP"),
      PUSH(5), PUSH(1), I("SSTORE"), PUSH(1), PUSH(0), I("SSTORE"), I("STOP")>>

\* 15: read slot 0, read slot 1 if the value is not zero, else slot 0 again,
\* then write 5 to slot 1 and the input word to slot 0
LoadIndirectThenStoreCode ==
    <<PUSH(0), I("SLOAD"), I("ISZERO"), I("ISZERO"), I("SLOAD"), I("POP"),
      PUSH(5), PUSH(1), I("SSTORE"),
      PUSH(0), I("CALLDATALOAD"), PUSH(0), I("SSTORE"), I("STOP")>>

\* 16: a call to address 2 with three of its seven arguments on the stack
ShortCallCode ==
    <<PUSH(0), PUSH(2), PUSH(100000), I("CALL"), I("STOP")>>

\* 17: a write with the slot and no value on the stack
ShortStoreCode ==
    <<PUSH(1), I("SSTORE"), I("STOP")>>

\* 18: a read with an empty stack
EmptyLoadCode ==
    <<I("SLOAD"), I("STOP")>>

\* 19: a write with an empty stack
EmptyStoreCode ==
    <<I("SSTORE"), I("STOP")>>

\* 20: a copy of the code of address 2 with one of its four arguments
ShortExtCopyCode ==
    <<PUSH(2), I("EXTCODECOPY"), I("STOP")>>

\* 21: read the slot named by the input word and return it
LoadNamedCode ==
    <<PUSH(0), I("CALLDATALOAD"), I("SLOAD")>> \o Return32

\* the codes a single call is made with
CodeIds == (1 .. 13) \cup (16 .. 20)

Code(c) ==
    CASE c = 1 -> StoreLoadCode
      [] c = 2 -> AccumulateCode
      [] c = 3 -> DoubleLoadCode
      [] c = 4 -> TouchAndCallCode
      [] c = 5 -> CalleeCode
      [] c = 6 -> PayCode
      [] c = 7 -> ExtCode
      [] c = 8 -> DelegateCode
      [] c = 9 -> StoreOnlyCode
      [] c = 10 -> LoadOneCode
      [] c = 11 -> StoreTwoCode
      [] c = 12 -> IndirectLoadCode
      [] c = 13 -> StoreTwoIndirectCode
      [] c = 14 -> DelegateThenStoreCode
      [] c = 15 -> LoadIndirectThenStoreCode
      [] c = 16 -> ShortCallCode
      [] c = 17 -> ShortStoreCode
      [] c = 18 -> EmptyLoadCode
      [] c = 19 -> EmptyStoreCode
      [] c = 20 -> ShortExtCopyCode
      [] c = 21 -> LoadNamedCode
      [] OTHER -> <<>>

\* minimum stack of the jump table for the opcodes of the model
minStack(op) ==
    CASE op \in {"PUSH", "STOP"} -> 0
      [] op \in {"POP", "ISZERO", "CALLDATALOAD", "SLOAD", "EXTCODESIZE",
                 "EXTCODEHASH"} -> 1
      [] op \in {"ADD", "SSTORE", "MSTORE", "RETURN", "REVERT"} -> 2
      [] op = "EXTCODECOPY" -> 4
      [] op \in {"DELEGATECALL", "STATICCALL"} -> 6
      [] op \in {"CALL", "CALLCODE"} -> 7
      [] OTHER -> 0

Pop(stack, n) == SubSeq(stack, 1, Len(stack) - n)

\* the opcode at pc; past the end of the code it is STOP
GetOp(f) ==
    IF f.pc <= Len(Code(f.code)) THEN Code(f.code)[f.pc] ELSE I("STOP")

\* ------------------------------------------------------------------------
\* Opcode execution (jump table entries and EVM.Call and its variants).
\* Only the storage-access charges of EIP-2929 are counted as gas; the gas
\* limit of a run and the gas handed to a call are never exhausted.
\* ------------------------------------------------------------------------
NoData == -1

NoGas == [cold |-> 0, warm |-> 0, used |-> 0]

chargeSlot(g, w, k, isLoad) ==
    IF k \in w
    THEN IF isLoad
         THEN [g EXCEPT !.warm = @ + 1, !.used = @ + WarmStorageReadCost]
         ELSE g
    ELSE [g EXCEPT !.cold = @ + 1, !.used = @ + ColdSloadCost]

NewFrame(self, c, input, snap, ro, retSize) ==
    [self |-> self, code |-> c, pc |-> 1, stack |-> <<>>, mem |-> 0,
     input |-> input, snap |-> snap, readOnly |-> ro, retSize |-> retSize]

Advance(f, stack) == [f EXCEPT !.pc = @ + 1, !.stack = stack]

Outcome(kind, f, db, w, g) ==
    [kind |-> kind, frame |-> f, db |-> db, warm |-> w, gas |-> g,
     ret |-> NoData, err |-> NoErr, child |-> f]

Transfer(db, from, to, value) ==
    AddBalance(SubBalance(db, from, value), to, value)

\* CALL, CALLCODE, DELEGATECALL and STATICCALL once their arguments are popped
opCallVariants(f, op, db, w, g) ==
    LET n == Len(f.stack)
        addr == f.stack[n - 1]
        hasValue == op \in {"CALL", "CALLCODE"}
        value == IF hasValue THEN f.stack[n - 2] ELSE 0
        inSize == IF hasValue THEN f.stack[n - 4] ELSE f.stack[n - 3]
        retSize == IF hasValue THEN f.stack[n - 6] ELSE f.stack[n - 5]
        rest == Pop(f.stack, IF hasValue THEN 7 ELSE 6)
        input == IF inSize > 0 THEN f.mem ELSE 0
        snap == [db |-> db, warm |-> w]
        self == IF op \in {"CALL", "STATICCALL"} THEN addr ELSE f.self
        ro == f.readOnly \/ op = "STATICCALL"
        db1 == CASE op = "CALL" ->
                      Transfer(IF Exist(db, addr) THEN db ELSE CreateAccount(db, addr),
                               f.self, addr, value)
                 [] op = "STATICCALL" -> AddBalance(db, addr, 0)
                 [] OTHER -> db
        c == GetCode(db1, addr)
        failed == Outcome("next", Advance(f, Append(rest, 0)), db, w, g)
        skipped == Outcome("next", Advance(f, Append(rest, 1)), db, w, g)
    IN IF op = "CALL" /\ f.readOnly /\ value # 0
       THEN [Outcome("error", f, db, w, g) EXCEPT !.err = "write protection"]
       ELSE IF hasValue /\ value # 0 /\ GetBalance(db, f.self) < value
       THEN failed
       ELSE IF op = "CALL" /\ ~Exist(db, addr) /\ value = 0
       THEN skipped
       ELSE IF c = 0
       THEN Outcome("next", Advance(f, Append(rest, 1)), db1, w, g)
       ELSE [Outcome("call", Advance(f, rest), db1, w, g) EXCEPT
                !.child = NewFrame(self, c, input, snap, ro, retSize)]

\* one opcode of frame f whose stack was validated
Dispatch(f, ins, db, w, g) ==
    LET op == ins.op
        n == Len(f.stack)
        top == f.stack[n]
        snd == f.stack[n - 1]
        k == <<f.self, top>>
    IN CASE op = "PUSH" -> Outcome("next", Advance(f, Append(f.stack, ins.arg)), db, w, g)
         [] op = "POP" -> Outcome("next", Advance(f, Pop(f.stack, 1)), db, w, g)
         [] op = "ISZERO" ->
              Outcome("next",
                      Advance(f, Append(Pop(f.stack, 1), IF top = 0 THEN 1 ELSE 0)),
                      db, w, g)
         [] op = "CALLDATALOAD" ->
              Outcome("next",
                      Advance(f, Append(Pop(f.stack, 1), IF top = 0 THEN f.input ELSE 0)),
                      db, w, g)
         [] op = "ADD" ->
              Outcome("next", Advance(f, Append(Pop(f.stack, 2), top + snd)), db, w, g)
         [] op = "MSTORE" ->
              Outcome("next", [Advance(f, Pop(f.stack, 2)) EXCEPT !.mem = snd], db, w, g)
         [] op = "SLOAD" ->
              Outcome("next",
                      Advance(f, Append(Pop(f.stack, 1), GetState(db, f.self, top))),
                      db, w \cup {k}, chargeSlot(g, w, k, TRUE))
         [] op = "SSTORE" ->
              IF f.readOnly
              THEN [Outcome("error", f, db, w, g) EXCEPT !.err = "write protection"]
              ELSE Outcome("next", Advance(f, Pop(f.stack, 2)),
                           SetState(db, f.self, top, snd),
                           w \cup {k}, chargeSlot(g, w, k, FALSE))
         [] op \in {"EXTCODESIZE", "EXTCODEHASH"} ->
              Outcome("next",
                      Advance(f, Append(Pop(f.stack, 1), GetCodeSize(db, top))),
                      db, w, g)
         [] op = "EXTCODECOPY" ->
              Outcome("next", Advance(f, Pop(f.stack, 4)), db, w, g)
         [] isCall(op) -> opCallVariants(f, op, db, w, g)
         [] op = "RETURN" ->
              [Outcome("return", f, db, w, g) EXCEPT
                  !.ret = IF snd > 0 THEN f.mem ELSE NoData]
         [] op = "REVERT" ->
              [Outcome("error", f, db, w, g) EXCEPT !.err = "execution reverted"]
         [] OTHER -> Outcome("return", f, db, w, g)

\* ------------------------------------------------------------------------
\* EVMInterpreter.Run: one iteration of the loop on the innermost frame.
\* A frame that ends hands its outcome to the call opcode of its parent;
\* the outermost frame hands it to runtime.Execute.
\* ------------------------------------------------------------------------
\* variant: the error of a hook is dropped and the opcode is dispatched
RunHooks_IgnoreError(f, op, st, okA, okB) ==
    [(CASE readStorage(op) -> registerAddressStorage(f.stack, f.self, st, okA)
        [] isCall(op) -> registerAddressCodeForCalls(op, f.stack, st, okA, okB)
        [] isExtCode(op) -> registerAddressCodeForExt(f.stack, st, okA)
        [] OTHER -> st) EXCEPT !.err = NoErr]

RunHooks(f, op, st, okA, okB) ==
    CASE readStorage(op) -> registerAddressStorage(f.stack, f.self, st, okA)
      [] isCall(op) -> registerAddressCodeForCalls(op, f.stack, st, okA, okB)
      [] isExtCode(op) -> registerAddressCodeForExt(f.stack, st, okA)
      [] OTHER -> st

\* variant: the results recorded before the failure are returned with the error
Fail_KeepResults(e) ==
    /\ pc' = "failed"
    /\ err' = e
    /\ frames' = <<>>
    /\ result' = result

\* return nil, err: the call ends with the error and without a result
Fail(e) ==
    /\ pc' = "failed"
    /\ err' = e
    /\ frames' = <<>>
    /\ result' = <<>>

\* A fetch error aborts the run at once, whatever the depth of the frame whose
\* hook met it: every enclosing call is left and reverted
unwind(fs) == [db |-> fs[1].snap.db, warm |-> fs[1].snap.warm]

Run ==
    /\ pc = "run"
    /\ \E okA \in BOOLEAN, okB \in BOOLEAN :
         LET depth == Len(frames)
             f == frames[depth]
             asks == RunHooks(f, GetOp(f).op, HookState(stateDB, rec, rpc),
                              TRUE, TRUE).rpc # rpc
             ins == GetOp(f)
             op == ins.op
             st == RunHooks(f, op, HookState(stateDB, rec, rpc), okA, okB)
             aborted == st.err = FetchError
             touches == st.err = NoErr /\ interactWithStorage(op)
             panics == touches /\ Len(f.stack) = 0
             in1 == IF touches /\ ~panics
                    THEN appendToAccessList(in, f.self, Peek(f.stack))
                    ELSE in
             out == IF st.err # NoErr
                    THEN [Outcome("error", f, st.db, warm, gas) EXCEPT !.err = st.err]
                    ELSE IF Len(f.stack) < minStack(op)
                    THEN [Outcome("error", f, st.db, warm, gas) EXCEPT
                            !.err = "stack underflow"]
                    ELSE Dispatch(f, ins, st.db, warm, gas)
             ended == out.kind \in {"return", "error"}
             good == out.kind = "return"
             parent == frames[depth - 1]
             resumed == [parent EXCEPT
                           !.stack = Append(@, IF good THEN 1 ELSE 0),
                           !.mem = IF good /\ f.retSize > 0 /\ out.ret # NoData
                                   THEN out.ret ELSE @]
             stored == op = "SSTORE" /\ out.kind = "next"
         IN /\ asks \/ (okA /\ okB)
            /\ rec' = st.rec
            /\ rpc' = st.rpc
            /\ hist' = [hist EXCEPT
                          !.touched = IF touches /\ ~panics
                                      THEN Append(@, <<f.self, Peek(f.stack)>>) ELSE @,
                          !.written = IF ~panics /\ stored
                                      THEN @ \cup {<<f.self, Peek(f.stack)>>} ELSE @]
            /\ IF panics
               THEN /\ Fail("panic")
                    /\ UNCHANGED <<in, stateDB, warm, gas>>
               ELSE IF aborted
               THEN /\ Fail(st.err)
                    /\ stateDB' = unwind(frames).db
                    /\ warm' = unwind(frames).warm
                    /\ UNCHANGED <<in, gas>>
               ELSE /\ gas' = out.gas
                    /\ stateDB' = IF out.kind = "error" THEN f.snap.db ELSE out.db
                    /\ warm' = IF out.kind = "error" THEN f.snap.warm ELSE out.warm
                    /\ IF ~ended
                       THEN /\ frames' = IF out.kind = "call"
                                         THEN Append([frames EXCEPT ![depth] = out.frame],
                                                     out.child)
                                         ELSE [frames EXCEPT ![depth] = out.frame]
                            /\ in' = in1
                            /\ UNCHANGED <<pc, err, result>>
                       ELSE IF depth > 1
                       THEN /\ frames' = [SubSeq(frames, 1, depth - 1) EXCEPT
                                             ![depth - 1] = resumed]
                            /\ in' = [in1 EXCEPT !.returnData = out.ret]
                            /\ UNCHANGED <<pc, err, result>>
                       ELSE IF good
                       THEN /\ frames' = <<>>
                            /\ in' = [in1 EXCEPT !.returnData = out.ret]
                            /\ pc' = "executed"
                            /\ UNCHANGED <<err, result>>
                       ELSE /\ Fail(out.err)
                            /\ in' = in1
    /\ UNCHANGED <<api, simulations, remote, state0, prior, pass, txi, originState,
                   recordAL, recordAccessLists, cur, run1>>

\* ------------------------------------------------------------------------
\* runtime.Execute
\* ------------------------------------------------------------------------
RECURSIVE SumKeys(_)
SumKeys(al) ==
    IF al = <<>> THEN 0 ELSE Len(al[1].storageKeys) + SumKeys(Tail(al))

\* core.IntrinsicGas: base cost and the EIP-2930 cost of the access list
IntrinsicGas(al) ==
    TxGas + Len(al) * TxAccessListAddressGas + SumKeys(al) * TxAccessListStorageKeyGas

RECURSIVE SlotsOf(_)
SlotsOf(al) ==
    IF al = <<>> THEN {}
    ELSE {<<al[1].address, al[1].storageKeys[n]>> : n \in 1 .. Len(al[1].storageKeys)}
         \cup SlotsOf(Tail(al))

\* state.Prepare: the access list of the store is reset to the given list
Prepare(al) == SlotsOf(al)

\* Execute up to the start of the interpreter (origin account, origin balance,
\* access list, target account) and the entry of EVM.Call
ExecuteBegin ==
    /\ pc = "execute"
    /\ LET sim == simulations[txi]
           origin == sim.from
           address == sim.to
           db1 == IF origin \notin stateDB.trie
                  THEN CreateAccount(stateDB, origin) ELSE stateDB
           funded == cur.balance > 0
           db2 == IF funded THEN SetBalance(db1, origin, cur.balance) ELSE db1
           rec1 == IF funded THEN [rec EXCEPT !.balSet = @ \cup {origin}] ELSE rec
           w == Prepare(recordAL)
           fresh == ~Exist(db2, address)
           db3 == IF fresh
                  THEN SetCode(CreateAccount(db2, address), address, cur.code)
                  ELSE db2
           rec2 == IF fresh THEN [rec1 EXCEPT !.codeSet = @ \cup {address}] ELSE rec1
           snap == [db |-> db3, warm |-> w]
           db4 == Transfer(db3, origin, address, sim.value)
           c == GetCode(db4, address)
       IN /\ in' = [NewInterpreter EXCEPT !.alSet = addressSlotAccessListSet(rec.storSet)]
          /\ hist' = [hist EXCEPT !.code = c, !.written = {}, !.touched = <<>>]
          /\ rec' = rec2
          /\ warm' = w
          /\ gas' = NoGas
          /\ IF sim.value > 0 /\ GetBalance(db3, origin) < sim.value
             THEN /\ Fail("insufficient balance for transfer")
                  /\ stateDB' = db3
             ELSE /\ stateDB' = db4
                  /\ UNCHANGED <<err, result>>
                  /\ IF c = 0
                     THEN pc' = "executed" /\ frames' = <<>>
                     ELSE /\ pc' = "run"
                          /\ frames' = <<NewFrame(address, c, sim.input, snap, FALSE, 0)>>
    /\ UNCHANGED <<api, simulations, remote, state0, prior, pass, txi, originState,
                   recordAL, recordAccessLists, cur, run1, rpc>>

\* what Execute returns, with the charges of the run
ExecutionResult ==
    [ret |-> in.returnData,
     gasUsed |-> gas.used + IntrinsicGas(in.accessList),
     accessList |-> in.accessList,
     cold |-> gas.cold,
     warm |-> gas.warm]

\* ------------------------------------------------------------------------
\* InitIdealState
\* ------------------------------------------------------------------------
RECURSIVE CopyCodes(_, _, _)
CopyCodes(tmp, origin, accs) ==
    IF accs = {} THEN tmp
    ELSE LET acc == CHOOSE a \in accs : TRUE
         IN CopyCodes(SetCode(CreateAccount(tmp, acc), acc, GetCode(origin, acc)),
                      origin, accs \ {acc})

RECURSIVE CopyBalances(_, _, _)
CopyBalances(tmp, origin, accs) ==
    IF accs = {} THEN tmp
    ELSE LET acc == CHOOSE a \in accs : TRUE
         IN CopyBalances(SetBalance(tmp, acc, GetBalance(origin, acc)),
                         origin, accs \ {acc})

RECURSIVE SetStorages(_, _, _)
SetStorages(tmp, storSet, keys) ==
    IF keys = {} THEN tmp
    ELSE LET key == CHOOSE k \in keys : TRUE
         IN SetStorages(SetState(tmp, KeyAddr(key), KeySlot(key), storSet[key]),
                        storSet, keys \ {key})

\* variant: the copy starts from the reference state instead of an empty one
InitIdealState_KeepOrigin(origin, record) ==
    CommitAndReopen(
        SetStorages(
            CopyBalances(CopyCodes(origin, origin, record.codeSet),
                         origin, record.balSet),
            record.storSet, DOMAIN record.storSet))

\* variant: the storage values are read from the reference state
InitIdealState_StorageFromOrigin(origin, record) ==
    CommitAndReopen(
        SetStorages(
            CopyBalances(CopyCodes(EmptyState, origin, record.codeSet),
                         origin, record.balSet),
            [k \in DOMAIN record.storSet |-> GetState(origin, KeyAddr(k), KeySlot(k))],
            DOMAIN record.storSet))

\* variant: the balances are set before the accounts are created
InitIdealState_BalancesFirst(origin, record) ==
    CommitAndReopen(
        SetStorages(
            CopyCodes(CopyBalances(EmptyState, origin, record.balSet),
                      origin, record.codeSet),
            record.storSet, DOMAIN record.storSet))

InitIdealState(origin, record) ==
    CommitAndReopen(
        SetStorages(
            CopyBalances(CopyCodes(EmptyState, origin, record.codeSet),
                         origin, record.balSet),
            record.storSet, DOMAIN record.storSet))

\* ------------------------------------------------------------------------
\* Simulator.Simulate
\* ------------------------------------------------------------------------
common == <<api, simulations, remote, state0, prior>>

sameHist == <<common, hist>>

\* variant: a fetched balance equal to the value is accepted
insufficient_Strict(balance, value) == balance < value

\* line 80: the fetched balance does not cover the value
insufficient(balance, value) == balance <= value

\* variant: the access list of the caller's record seeds the first pass
firstPassAccessList_Passed(al) == al

\* lines 85-93: the record of the first pass takes the three sets of the
\* caller's record, its AccessList field (line 91) is left empty
firstPassAccessList(al) == <<>>

\* lines 49-93: target code, sender balance, record of the first pass
Simulate ==
    /\ pc = "start" /\ api = "Simulate"
    /\ \E okCode, okBal \in BOOLEAN :
         LET sim == simulations[1]
             fetchCode == sim.code = 0 /\ GetCodeSize(stateDB, sim.to) = 0
             code == IF fetchCode THEN remote.code[sim.to]
                     ELSE IF sim.code = 0 THEN GetCode(stateDB, sim.to)
                     ELSE sim.code
             codeFailed == fetchCode /\ ~okCode
             rpc1 == IF fetchCode
                     THEN [rpc EXCEPT !.code[sim.to] = @ + 1,
                                      !.codeOk[sim.to] = IF okCode THEN @ + 1 ELSE @]
                     ELSE rpc
             fetchBal == ~codeFailed /\ sim.value > 0
                         /\ GetBalance(stateDB, sim.from) <= 0
             balance == IF fetchBal THEN remote.bal[sim.from] ELSE 0
             rpc2 == IF fetchBal
                     THEN [rpc1 EXCEPT !.bal[sim.from] = @ + 1,
                                       !.balOk[sim.from] = IF okBal THEN @ + 1 ELSE @]
                     ELSE rpc1
         IN /\ rpc' = rpc2
            /\ IF codeFailed \/ (fetchBal /\ ~okBal)
               THEN Fail(FetchError) /\ UNCHANGED <<cur, recordAL>>
               ELSE IF fetchBal /\ insufficient(balance, sim.value)
               THEN /\ Fail("insuficient balance to proceed with simulation")
                    /\ UNCHANGED <<cur, recordAL>>
               ELSE /\ cur' = [code |-> code, balance |-> balance]
                    /\ recordAL' = firstPassAccessList(recordAL)
                    /\ pc' = "execute"
                    /\ UNCHANGED <<err, frames, result>>
    /\ UNCHANGED <<sameHist, pass, txi, stateDB, originState, rec, recordAccessLists,
                   in, warm, gas, run1>>

\* lines 96-99: the first Execute has returned
SimulateFirstExecuted ==
    /\ pc = "executed" /\ api = "Simulate" /\ pass = 1
    /\ run1' = ExecutionResult
    /\ pc' = "ideal"
    /\ UNCHANGED <<sameHist, pass, txi, stateDB, originState, rec, recordAL,
                   recordAccessLists, in, frames, warm, gas, cur, result, rpc, err>>

\* variant: the access list of the first pass is withheld from the second
secondPassAccessList_Withheld(r) == <<>>

\* line 110: the access list of the record that seeds the second pass
secondPassAccessList(r) == r.accessList

\* lines 101-111: the ideal state replaces stateDB, the record of the first
\* pass (sets and access list) seeds the second
SimulateReconstruct ==
    /\ pc = "ideal" /\ api = "Simulate"
    /\ originState' = stateDB
    /\ stateDB' = InitIdealState(stateDB, rec)
    /\ recordAL' = secondPassAccessList(run1)
    /\ pass' = 2
    /\ pc' = "execute"
    /\ UNCHANGED <<sameHist, txi, rec, recordAccessLists, in, frames, warm, gas, cur,
                   run1, result, rpc, err>>

\* variant: the outcome of the first Execute is returned
returned_First(first, second) == first

\* lines 113, 118-122: result is reassigned by the second Execute and the
\* SimulationResult is built from it
returned(first, second) == second

\* lines 113-122: the second Execute has returned
SimulateSecondExecuted ==
    /\ pc = "executed" /\ api = "Simulate" /\ pass = 2
    /\ result' = <<returned(run1, ExecutionResult)>>
    /\ pc' = "done"
    /\ UNCHANGED <<sameHist, pass, txi, stateDB, originState, rec, recordAL,
                   recordAccessLists, in, frames, warm, gas, cur, run1, rpc, err>>

\* ------------------------------------------------------------------------
\* Simulator.SimulateBundle and Simulator.unoptimalSimulation
\* ------------------------------------------------------------------------
\* lines 187-189: the loops over an empty list are skipped
SimulateBundle ==
    /\ pc = "start" /\ api = "SimulateBundle"
    /\ pc' = IF simulations = <<>> THEN "ideal" ELSE "unoptimal"
    /\ UNCHANGED <<sameHist, pass, txi, stateDB, originState, rec, recordAL,
                   recordAccessLists, in, frames, warm, gas, cur, run1, result,
                   rpc, err>>

\* variant: every accounting run is given the list of the first transaction
reattached_First(lists, i) == lists[1]

\* line 207: recordInitializer.AccessList = recordAccessLists[i]
reattached(lists, i) == lists[i]

\* unoptimalSimulation lines 126-170, preceded in the second loop by line 207,
\* which writes the captured list into the record the previous result holds
unoptimalSimulation ==
    /\ pc = "unoptimal"
    /\ \E okCode, okBal \in BOOLEAN :
         LET sim == simulations[txi]
             al == IF pass = 2 THEN reattached(recordAccessLists, txi) ELSE recordAL
             fetchCode == sim.code = 0 /\ GetCodeSize(stateDB, sim.to) = 0
             code == IF fetchCode THEN remote.code[sim.to]
                     ELSE IF sim.code = 0 THEN GetCode(stateDB, sim.to)
                     ELSE sim.code
             codeFailed == fetchCode /\ ~okCode
             rpc1 == IF fetchCode
                     THEN [rpc EXCEPT !.code[sim.to] = @ + 1,
                                      !.codeOk[sim.to] = IF okCode THEN @ + 1 ELSE @]
                     ELSE rpc
             known == GetBalance(stateDB, sim.from)
             fetchBal == ~codeFailed /\ sim.value > 0 /\ known <= 0
             balance == IF fetchBal THEN remote.bal[sim.from] ELSE known
             rpc2 == IF fetchBal
                     THEN [rpc1 EXCEPT !.bal[sim.from] = @ + 1,
                                       !.balOk[sim.from] = IF okBal THEN @ + 1 ELSE @]
                     ELSE rpc1
         IN /\ rpc' = rpc2
            /\ recordAL' = al
            /\ IF codeFailed \/ (fetchBal /\ ~okBal)
               THEN Fail(FetchError) /\ UNCHANGED cur
               ELSE IF balance < sim.value
               THEN /\ Fail("insuficient balance to proceed with simulation")
                    /\ UNCHANGED cur
               ELSE /\ cur' = [code |-> code, balance |-> balance]
                    /\ pc' = "execute"
                    /\ result' = IF pass = 2 /\ txi > 1
                                 THEN [result EXCEPT ![txi - 1].accessList = al]
                                 ELSE result
                    /\ UNCHANGED <<err, frames>>
    /\ UNCHANGED <<sameHist, pass, txi, stateDB, originState, rec, recordAccessLists,
                   in, warm, gas, run1>>

NextTx(after) ==
    IF txi < Len(simulations)
    THEN txi' = txi + 1 /\ pc' = "unoptimal"
    ELSE txi' = 1 /\ pc' = after

\* variant: the next transaction starts from an empty record
carryForward_Dropped(produced) == EmptyRecord

\* line 196: the record the transaction produced becomes the record of the
\* next transaction and, after the last, of the reconstruction
carryForward(produced) == produced

\* variant: the access list of the transaction stays in the carried record
detached_Kept(al) == al

\* line 197: recordInitializer.AccessList = nil
detached(al) == <<>>

\* lines 190-197: capture the access list of the transaction and detach it
BundleFirstExecuted ==
    /\ pc = "executed" /\ api = "SimulateBundle" /\ pass = 1
    /\ run1' = ExecutionResult
    /\ recordAccessLists' = Append(recordAccessLists, in.accessList)
    /\ rec' = carryForward(rec)
    /\ recordAL' = detached(in.accessList)
    /\ NextTx("ideal")
    /\ UNCHANGED <<sameHist, pass, stateDB, originState, in, frames, warm, gas,
                   cur, result, rpc, err>>

\* lines 201-204: one reconstruction for the whole bundle; a nil record is
\* dereferenced when the list is empty and the caller gave no record
BundleReconstruct ==
    /\ pc = "ideal" /\ api = "SimulateBundle"
    /\ IF simulations = <<>> /\ prior = "nil"
       THEN Fail("panic") /\ UNCHANGED <<originState, stateDB, pass>>
       ELSE /\ originState' = stateDB
            /\ stateDB' = InitIdealState(stateDB, rec)
            /\ pass' = 2
            /\ pc' = IF simulations = <<>> THEN "done" ELSE "unoptimal"
            /\ UNCHANGED <<err, frames, result>>
    /\ UNCHANGED <<sameHist, txi, rec, recordAL, recordAccessLists, in, warm, gas,
                   cur, run1, rpc>>

\* lines 208-224: record the result, commit, reopen the committed root
BundleSecondExecuted ==
    /\ pc = "executed" /\ api = "SimulateBundle" /\ pass = 2
    /\ result' = Append(result, ExecutionResult)
    /\ stateDB' = CommitAndReopen(stateDB)
    /\ hist' = [hist EXCEPT !.committed =
                   [k \in DOMAIN @ \cup hist.written |-> stateDB.stor[k]]]
    /\ NextTx("done")
    /\ UNCHANGED <<common, pass, originState, rec, recordAL, recordAccessLists, in,
                   frames, warm, gas, cur, run1, rpc, err>>

\* ------------------------------------------------------------------------
\* Calls the model starts from
\* ------------------------------------------------------------------------
Sender == 0

Target == 1

Inputs == {1, 32}

Values == {0, 3}

\* What the remote node holds: the target has code 4; address 2 has code 12
\* and every balance is 0, or address 2 has code 5 and every balance is 3
\* (the value of a paying call) or 10; every slot is 0 or every slot differs.
\* One more node holds no code at all: its addresses are plain accounts.
RemoteBalances == {0, 3, 10}

PlainAccounts ==
    [code |-> [a \in Addr |-> 0],
     bal |-> [a \in Addr |-> 10],
     stor |-> [k \in Key |-> 0]]

Remotes ==
    {[code |-> [a \in Addr |-> CASE a = Target -> 4
                                 [] a = 2 -> IF b = 0 THEN 12 ELSE 5
                                 [] OTHER -> 0],
      bal |-> [a \in Addr |-> b],
      stor |-> [k \in Key |-> IF z THEN 0 ELSE 10 + KeyOf(k[1], k[2])]] :
        b \in RemoteBalances, z \in BOOLEAN}
    \cup {PlainAccounts}

Simulation(c, v, i) ==
    [from |-> Sender, to |-> Target, value |-> v, input |-> i, code |-> c]

\* a call whose sender is its target
SelfCalls == {<<[Simulation(1, 0, i) EXCEPT !.from = Target]>> : i \in Inputs}

SingleCalls ==
    {<<Simulation(c, v, i)>> : c \in {0} \cup CodeIds, v \in Values, i \in Inputs}
    \cup SelfCalls

\* Bundles: transaction n has input n and value 0; every sequence of at most
\* MaxMixed transactions over BundleCodes, up to MaxTx times code 2, and two
\* transactions of code 14 whose input names the sender or address 2; then
\* transactions without code, and transactions of code 2 that pay the value 3
BundleCodes == {2, 11, 12, 15}

RECURSIVE Mixed(_)
Mixed(n) ==
    IF n = 0 THEN {<<>>}
    ELSE Mixed(n - 1)
         \cup {Append(b, Simulation(c, 0, n)) :
                 b \in {x \in Mixed(n - 1) : Len(x) = n - 1}, c \in BundleCodes}

Delegating == {<<Simulation(14, 0, a), Simulation(14, 0, b)>> : a, b \in {Sender, 2}}

Codeless == {[n \in 1 .. m |-> Simulation(0, 0, n)] : m \in 1 .. 2}

Paying == {[n \in 1 .. m |-> Simulation(2, 3, n)] : m \in 1 .. MaxTx}

Selecting == {<<Simulation(21, 0, a), Simulation(21, 0, b)>> : a, b \in {0, 1}}

Bundles ==
    Mixed(MaxMixed) \cup {[n \in 1 .. m |-> Simulation(2, 0, n)] : m \in 0 .. MaxTx}
    \cup Delegating \cup Codeless \cup Paying \cup Selecting

\* The caller's store and record: an empty store without or with an empty
\* record, a store and record left by an earlier simulation of the target,
\* a committed store in which the sender holds a balance, and a store in
\* which the target holds a balance and no code.
Visited(r) ==
    [db |-> SetState(SetCode(EmptyState, Target, r.code[Target]),
                     Target, 0, r.stor[<<Target, 0>>]),
     prior |-> "given",
     rec |-> [codeSet |-> {Target}, balSet |-> {},
              storSet |-> (KeyOf(Target, 0) :> r.stor[<<Target, 0>>])],
     al |-> <<[address |-> Target, storageKeys |-> <<0>>]>>]

Callers(r) ==
    {[db |-> EmptyState, prior |-> "nil", rec |-> EmptyRecord, al |-> <<>>],
     [db |-> EmptyState, prior |-> "given", rec |-> EmptyRecord, al |-> <<>>],
     Visited(r),
     [db |-> CommitAndReopen(SetBalance(EmptyState, Sender, 5)),
      prior |-> "nil", rec |-> EmptyRecord, al |-> <<>>],
     [db |-> SetBalance(EmptyState, Target, 1),
      prior |-> "nil", rec |-> EmptyRecord, al |-> <<>>]}

NoHistory == [code |-> 0, written |-> {}, committed |-> <<>>, touched |-> <<>>]

\* a store in which address 2 holds a balance below the value PayCode sends
Holding ==
    [db |-> SetBalance(EmptyState, 2, 1), prior |-> "nil", rec |-> EmptyRecord, al |-> <<>>]

CallersOf(a, r) == IF a = "Simulate" THEN Callers(r) \cup {Holding} ELSE Callers(r)

InitCall(a, sims) ==
    /\ api = a
    /\ simulations \in sims
    /\ remote \in Remotes
    /\ \E c \in CallersOf(a, remote) :
         /\ state0 = c.db
         /\ stateDB = c.db
         /\ originState = c.db
         /\ prior = c.prior
         /\ rec = c.rec
         /\ recordAL = c.al
    /\ pc = "start"
    /\ pass = 1
    /\ txi = 1
    /\ recordAccessLists = <<>>
    /\ in = NewInterpreter
    /\ frames = <<>>
    /\ warm = {}
    /\ gas = NoGas
    /\ cur = [code |-> 0, balance |-> 0]
    /\ run1 = [ret |-> NoData, gasUsed |-> 0, accessList |-> <<>>, cold |-> 0, warm |-> 0]
    /\ result = <<>>
    /\ rpc = NoRequests
    /\ hist = NoHistory
    /\ err = NoErr

InitSimulate == InitCall("Simulate", SingleCalls)

InitBundle == InitCall("SimulateBundle", Bundles)

\* Any sequence of storage touches of one interpreter run (Run, lines 313-315)
InitAccessList ==
    /\ InitCall("Run", {<<>>})
    /\ remote.bal[Sender] = 0 /\ remote.stor[<<Sender, 0>>] = 0
    /\ state0 = EmptyState /\ prior = "nil"

Touch ==
    /\ Len(hist.touched) < MaxTouch
    /\ \E a \in Addr, s \in Slot :
         /\ in' = appendToAccessList(in, a, s)
         /\ hist' = [hist EXCEPT !.touched = Append(@, <<a, s>>)]
    /\ UNCHANGED <<common, pc, pass, txi, stateDB, originState, rec, recordAL,
                   recordAccessLists, frames, warm, gas, cur, run1, result, rpc, err>>

NextSimulate ==
    \/ Simulate
    \/ SimulateFirstExecuted
    \/ SimulateReconstruct
    \/ SimulateSecondExecuted
    \/ ExecuteBegin
    \/ Run

NextBundle ==
    \/ SimulateBundle
    \/ unoptimalSimulation
    \/ BundleFirstExecuted
    \/ BundleReconstruct
    \/ BundleSecondExecuted
    \/ ExecuteBegin
    \/ Run

\* one call of Simulate
SpecSimulate == InitSimulate /\ [][NextSimulate]_vars

\* one call of SimulateBundle
SpecBundle == InitBundle /\ [][NextBundle]_vars

NextAccessList == Touch

\* the storage touches of one interpreter run
SpecAccessList == InitAccessList /\ [][NextAccessList]_vars

\* ========================================================================
\* Properties
\* ========================================================================
Done == pc = "done"

Rets == [n \in 1 .. Len(result) |-> result[n].ret]

InsufficientBalance == "insuficient balance to proceed with simulation"

\* the state InitIdealState has just returned for the second pass of Simulate
Reconstructed == api = "Simulate" /\ pass = 2 /\ pc = "execute"

FreshTarget == ~Exist(state0, Target)

\* C1: in the accounting pass of SimulateBundle, a slot written by an earlier
\* transaction of the bundle and not yet written by the running one holds
\* (so every read of it returns) the value committed for it.
C1_ReadsSeeCommittedWrites ==
    (api = "SimulateBundle" /\ pass = 2)
        => \A k \in DOMAIN hist.committed :
              k \notin hist.written
                 => GetState(stateDB, k[1], k[2]) = hist.committed[k]

\* C1, the example of the test: from an empty reference state, inputs 1, 2, 3
\* added to one slot whose remote value is 0 return 1, 3, 6.
C1_ExampleReturns136 ==
    (/\ Done
     /\ simulations = [n \in 1 .. 3 |-> Simulation(2, 0, n)]
     /\ state0 = EmptyState
     /\ remote.stor[<<Target, 0>>] = 0)
        => Rets = <<1, 3, 6>>

\* C2: Simulate of the program that writes the input word to slot 0,
\* reads the slot and returns it, returns the input word.
C2_StoreLoadReturnsInput ==
    (api = "Simulate" /\ Done /\ simulations[1].code = 1)
        => result[1].ret = simulations[1].input

\* The same from a reference state that holds no account at the target, the
\* sender being another address: the program is run in both passes and
\* returns the input word, whatever the remote slot holds.
C2_FreshTargetReturnsInput ==
    (/\ api = "Simulate" /\ Done /\ simulations[1].code = 1 /\ FreshTarget
     /\ simulations[1].from # simulations[1].to)
        => result[1].ret = simulations[1].input

\* Such a call: the remote slot holds another value, which the first pass
\* returned, and the call returned the input 32.
C2_Witness ==
    /\ api = "Simulate" /\ Done /\ simulations[1].code = 1 /\ FreshTarget
    /\ simulations[1].input = 32
    /\ remote.stor[<<Target, 0>>] # 32
    /\ run1.ret = remote.stor[<<Target, 0>>]
    /\ result[1].ret = 32

\* C3: within one Simulate call (the fetch of the target's code, the fetch of
\* the sender's balance and both passes) no fact is requested twice from the
\* remote node: the code of an address, the balance of an address, a slot.
C3_FetchIdempotence ==
    api = "Simulate"
        => /\ \A a \in Addr : rpc.code[a] <= 1 /\ rpc.bal[a] <= 1
           /\ \A k \in Key : rpc.stor[k] <= 1

\* C3 witness: a finished call that requested a code, two balances and a
\* slot once each, all answered, and whose second pass needed them again.
C3_Witness ==
    /\ api = "Simulate" /\ Done
    /\ rpc.code[2] = 1 /\ rpc.bal[Sender] = 1 /\ rpc.bal[2] = 1
    /\ rpc.stor[<<2, 0>>] = 1
    /\ rpc.codeOk[2] = 1 /\ rpc.balOk[Sender] = 1 /\ rpc.balOk[2] = 1
    /\ rpc.storOk[<<2, 0>>] = 1
    /\ <<2, 0>> \in hist.written

\* the sequence without the later occurrences of an element
RECURSIVE FirstTouches(_)
FirstTouches(seq) ==
    IF seq = <<>> THEN <<>>
    ELSE LET front == FirstTouches(SubSeq(seq, 1, Len(seq) - 1))
             last == seq[Len(seq)]
         IN IF \E n \in 1 .. Len(front) : front[n] = last THEN front
            ELSE Append(front, last)

TouchedAddresses == [n \in 1 .. Len(hist.touched) |-> hist.touched[n][1]]

TouchedSlots(a) ==
    LET of == SelectSeq(hist.touched, LAMBDA t : t[1] = a)
    IN [n \in 1 .. Len(of) |-> of[n][2]]

\* C4: after any sequence of touches the access list names every address once
\* and no (address, slot) twice, its addresses are in order of first touch and
\* the slots of an address are in order of first touch.
C4_AccessListShape ==
    LET al == in.accessList
    IN /\ \A m, n \in 1 .. Len(al) : al[m].address = al[n].address => m = n
       /\ \A m \in 1 .. Len(al) :
            \A x, y \in 1 .. Len(al[m].storageKeys) :
               al[m].storageKeys[x] = al[m].storageKeys[y] => x = y
       /\ [n \in 1 .. Len(al) |-> al[n].address] = FirstTouches(TouchedAddresses)
       /\ \A m \in 1 .. Len(al) :
            al[m].storageKeys = FirstTouches(TouchedSlots(al[m].address))

\* C4 witness: slot 0 of address 1, slot 1 of address 1, then slot 0 of
\* address 2 give [{1: [0, 1]}, {2: [0]}].
C4_Witness ==
    /\ hist.touched = <<<<1, 0>>, <<1, 1>>, <<2, 0>>>>
    /\ in.accessList = <<[address |-> 1, storageKeys |-> <<0, 1>>],
                         [address |-> 2, storageKeys |-> <<0>>]>>

C8_IdealStateMinimal ==
    Reconstructed
        => /\ \A a \in Addr \ (rec.codeSet \cup rec.balSet) :
                GetCode(stateDB, a) = 0 /\ GetBalance(stateDB, a) = 0
           /\ \A k \in Key :
                KeyOf(k[1], k[2]) \notin DOMAIN rec.storSet
                   => GetState(stateDB, k[1], k[2]) = 0
           /\ \A a \in rec.codeSet \ rec.balSet : GetBalance(stateDB, a) = 0

\* C8 witness: the reference state holds a balance for an address of CodeSet
\* that is not in BalanceSet and a value in a slot that is not in StorageSet.
C8_Witness ==
    /\ Reconstructed
    /\ Target \in rec.codeSet \ rec.balSet
    /\ GetBalance(originState, Target) > 0
    /\ GetBalance(stateDB, Target) = 0
    /\ KeyOf(Target, 1) \notin DOMAIN rec.storSet
    /\ GetState(originState, Target, 1) # 0
    /\ GetState(stateDB, Target, 1) = 0

\* C9 as stated: in the state InitIdealState returns, every slot of StorageSet
\* reads the value the reference state holds for it.
C9_StorageFromReference ==
    Reconstructed
        => \A k \in Key :
              KeyOf(k[1], k[2]) \in DOMAIN rec.storSet
                 => GetState(stateDB, k[1], k[2]) = GetState(originState, k[1], k[2])

\* C9 amended: every slot of StorageSet reads the value recorded for it in
\* StorageSet, the value the remote node answered when the slot was fetched.
C9_StorageFromRecord ==
    Reconstructed
        => \A k \in Key :
              KeyOf(k[1], k[2]) \in DOMAIN rec.storSet
                 => GetState(stateDB, k[1], k[2]) = rec.storSet[KeyOf(k[1], k[2])]

\* C9 witness: the first pass wrote a slot after fetching it, so the reference
\* state holds another value than the one recorded and reconstructed.
C9_Witness ==
    /\ Reconstructed
    /\ KeyOf(Target, 0) \in DOMAIN rec.storSet
    /\ rpc.storOk[<<Target, 0>>] = 1
    /\ GetState(originState, Target, 0) # remote.stor[<<Target, 0>>]
    /\ GetState(stateDB, Target, 0) = remote.stor[<<Target, 0>>]

\* C10: in the state InitIdealState returns, every address of CodeSet has an
\* account with the code the reference state holds for it, and every address
\* of BalanceSet has the balance the reference state holds for it.
C10_CodeAndBalanceFromReference ==
    Reconstructed
        => /\ \A a \in rec.codeSet :
                Exist(stateDB, a) /\ GetCode(stateDB, a) = GetCode(originState, a)
           /\ \A a \in rec.balSet :
                GetBalance(stateDB, a) = GetBalance(originState, a)

\* C10 witness: an address of both sets with code and a balance.
C10_Witness ==
    /\ Reconstructed
    /\ 2 \in rec.codeSet \cap rec.balSet
    /\ GetCode(stateDB, 2) # 0
    /\ GetBalance(stateDB, 2) > 0

CallerState == IF pass = 1 THEN stateDB ELSE originState

\* C12: when Simulate returns an error, the reference state of the caller has
\* the content it had before the call.
C12_ReferenceStateUntouchedOnError ==
    (api = "Simulate" /\ pc = "failed") => CallerState = state0

\* C13: after a successful Simulate on a reference state without an account
\* at the target, the store the caller passed holds code at the target.
C13_TargetHoldsCode ==
    (api = "Simulate" /\ Done /\ ~Exist(state0, simulations[1].to))
        => GetCode(CallerState, simulations[1].to) # 0

\* The same for a simulation that carries code and whose sender is another
\* address: the store holds that code.
C13_CarriedCodeInstalled ==
    (/\ api = "Simulate" /\ Done /\ ~Exist(state0, simulations[1].to)
     /\ simulations[1].code # 0 /\ simulations[1].from # simulations[1].to)
        => GetCode(CallerState, simulations[1].to) = simulations[1].code

\* the opcodes that have a pre-dispatch hook or an access-list touch
hooked(op) == interactWithStorage(op) \/ isCall(op) \/ isExtCode(op)

StackErrors == {"stack underflow", "insufficient elements in stack"}

\* C14: when the stack holds fewer items than a hooked opcode requires, the
\* step of that opcode fails its frame with a stack error, sends no request
\* to the remote node and changes neither the dedup sets nor the access list,
\* and the store is the one the frame started from.
C14_UnderflowBeforeFetch ==
    [][(/\ pc = "run"
        /\ hooked(GetOp(frames[Len(frames)]).op)
        /\ Len(frames[Len(frames)].stack) < minStack(GetOp(frames[Len(frames)]).op))
          => /\ rpc' = rpc
             /\ rec' = rec
             /\ in'.accessList = in.accessList
             /\ stateDB' = frames[Len(frames)].snap.db
             /\ IF Len(frames) = 1
                THEN pc' = "failed" /\ err' \in StackErrors
                ELSE Len(frames') = Len(frames) - 1]_vars

\* a request the remote node did not answer
Unanswered ==
    \/ \E a \in Addr : rpc.code[a] > rpc.codeOk[a] \/ rpc.bal[a] > rpc.balOk[a]
    \/ \E k \in Key : rpc.stor[k] > rpc.storOk[k]

C16_BundleFetchIdempotence ==
    api = "SimulateBundle"
        => /\ \A a \in Addr : rpc.code[a] <= 1 /\ rpc.bal[a] <= 1
           /\ \A k \in Key : rpc.stor[k] <= 1

\* C17: the accounting pass is state-bound: no step taken in pass 2 of
\* Simulate sends a request to the remote node.
C17_SecondPassStateBound ==
    [][(api = "Simulate" /\ pass = 2) => rpc' = rpc]_vars

\* C18: pass 1 of Simulate runs without an access list, so that only the
\* slots its own run has touched are warm, whatever access list the record of
\* the caller holds; pass 2 runs with the access list pass 1 produced, whose
\* slots are warm from its start.
C18_PassSeeding ==
    api = "Simulate"
        => /\ (pass = 1 /\ pc \in {"execute", "run", "executed", "ideal"})
                => /\ recordAL = <<>>
                   /\ warm \subseteq {hist.touched[n] : n \in 1 .. Len(hist.touched)}
           /\ pass = 2
                => /\ recordAL = run1.accessList
                   /\ pc \in {"run", "executed", "done"}
                        => SlotsOf(run1.accessList) \subseteq warm

\* C18 witness: the record of the caller names slot 0 of the target in its
\* access list and in StorageSet; pass 1 did not fetch the slot and charged
\* its first accesses as cold, pass 2 charged none as cold.
C18_Witness ==
    /\ api = "Simulate" /\ Done /\ prior = "given"
    /\ hist.code = 4
    /\ KeyOf(Target, 0) \in DOMAIN rec.storSet
    /\ rpc.stor[<<Target, 0>>] = 0
    /\ run1.cold >= 1
    /\ <<Target, 0>> \in SlotsOf(run1.accessList)
    /\ result[1].cold = 0

\* C19: a successful Simulate returns the bytes, the gas used and the record
\* of its second Execute.
C19_ReturnsSecondPass ==
    (api = "Simulate" /\ Done)
        => /\ Len(result) = 1
           /\ result[1].ret = in.returnData
           /\ result[1].gasUsed = gas.used + IntrinsicGas(in.accessList)
           /\ result[1].accessList = in.accessList
           /\ result[1].cold = gas.cold /\ result[1].warm = gas.warm

\* C19 witness: a successful call whose two passes differ in the returned
\* bytes and in the gas used.
C19_Witness ==
    /\ api = "Simulate" /\ Done
    /\ run1.ret # result[1].ret
    /\ run1.gasUsed # result[1].gasUsed

\* the ideal state of a bundle has just been reconstructed
BundleReconstructed ==
    api = "SimulateBundle" /\ pass = 2 /\ pc = "unoptimal" /\ txi = 1

\* every slot a discovery run has fetched, and every slot of the caller's
\* record, is in the record and holds its recorded value in db
UnionOfFacts(db) ==
    /\ \A k \in Addr \X Slot :
         rpc.storOk[k] > 0
            => /\ KeyOf(k[1], k[2]) \in DOMAIN rec.storSet
               /\ Exist(db, k[1])
               /\ GetState(db, k[1], k[2]) = rec.storSet[KeyOf(k[1], k[2])]
    /\ prior = "given"
         => \A c \in Callers(remote) :
              (c.prior = "given" /\ c.db = state0 /\ c.rec # EmptyRecord)
                 => /\ c.rec.codeSet \subseteq rec.codeSet
                    /\ DOMAIN c.rec.storSet \subseteq DOMAIN rec.storSet

\* C20: SimulateBundle reconstructs the ideal state in one step only, taken
\* after the discovery run of the last transaction and before any accounting
\* result exists, and the record it reconstructs from holds the facts of the
\* discovery runs of all transactions and of the caller's record.
C20_SingleReconstruction ==
    /\ [](BundleReconstructed => (result = <<>> /\ UnionOfFacts(stateDB)))
    /\ [][(api = "SimulateBundle" /\ pass' # pass)
            => /\ pass = 1 /\ pass' = 2 /\ pc = "ideal"
               /\ Len(recordAccessLists) = Len(simulations)
               /\ result = <<>>
               /\ stateDB' = InitIdealState(stateDB, rec)]_vars

\* C20 witness: the accounting run of the first transaction is under way; a
\* slot with a non-zero remote value that only the discovery run of the
\* second transaction touched is in the record and in the ideal state.
C20_Witness ==
    /\ api = "SimulateBundle" /\ pass = 2 /\ txi = 1 /\ pc = "run"
    /\ Len(simulations) >= 2
    /\ \E k \in Addr \X Slot :
         /\ rpc.storOk[k] = 1
         /\ k \notin SlotsOf(recordAccessLists[1])
         /\ k \in SlotsOf(recordAccessLists[2])
         /\ remote.stor[k] # 0
         /\ KeyOf(k[1], k[2]) \in DOMAIN rec.storSet
         /\ GetState(stateDB, k[1], k[2]) = remote.stor[k]

\* the slots the run under way, or just ended, has touched
Touched == {hist.touched[n] : n \in 1 .. Len(hist.touched)}

\* C21: in the discovery pass of SimulateBundle the list captured for a
\* transaction holds exactly the slots its own run touched, and every
\* transaction after the first starts without an access list: nothing is
\* warm but what its own run has touched.
C21_OwnAccessListOnly ==
    /\ []((api = "SimulateBundle" /\ pass = 1 /\ txi > 1
              /\ pc \in {"unoptimal", "execute", "run", "executed"})
            => /\ recordAL = <<>>
               /\ pc \in {"run", "executed"} => warm \subseteq Touched)
    /\ [][(api = "SimulateBundle" /\ pass = 1 /\ pc = "executed")
            => /\ Len(recordAccessLists') = Len(recordAccessLists) + 1
               /\ Len(recordAccessLists') = txi
               /\ SubSeq(recordAccessLists', 1, txi - 1) = recordAccessLists
               /\ SlotsOf(recordAccessLists'[txi]) = Touched
               /\ SumKeys(recordAccessLists'[txi]) = Cardinality(Touched)]_vars

\* C21 witness: the discovery pass of two transactions has ended; the first
\* touched slot 0 of the target only, the second slot 1 only, and each
\* captured list holds the slot of its own transaction alone.
C21_Witness ==
    /\ api = "SimulateBundle" /\ pass = 1 /\ pc = "ideal"
    /\ Len(recordAccessLists) = 2
    /\ SlotsOf(recordAccessLists[1]) = {<<Target, 0>>}
    /\ SlotsOf(recordAccessLists[2]) = {<<Target, 1>>}

\* C22: in the accounting pass of SimulateBundle transaction txi runs with
\* the list captured for it, after exactly the results of the transactions
\* before it were recorded; the step that ends it records its returned bytes
\* and gas as result txi, keeps those of the earlier results, commits the
\* working state and reopens it, and moves to the next transaction.
C22_AccountingInOrder ==
    /\ []((api = "SimulateBundle" /\ pass = 2 /\ pc \in {"execute", "run", "executed"})
            => /\ recordAL = recordAccessLists[txi]
               /\ Len(result) = txi - 1
               /\ pc \in {"run", "executed"}
                    => SlotsOf(recordAccessLists[txi]) \subseteq warm)
    /\ []((api = "SimulateBundle" /\ pass = 2 /\ txi > 1
              /\ pc \in {"unoptimal", "execute"})
            => stateDB.trie = stateDB.exist)
    /\ [][(api = "SimulateBundle" /\ pass = 2 /\ pc = "executed")
            => /\ Len(result') = txi
               /\ result'[txi].ret = in.returnData
               /\ result'[txi].gasUsed = gas.used + IntrinsicGas(in.accessList)
               /\ \A n \in 1 .. txi - 1 :
                    /\ result'[n].ret = result[n].ret
                    /\ result'[n].gasUsed = result[n].gasUsed
               /\ stateDB'.trie = stateDB.exist
               /\ [stateDB' EXCEPT !.trie = {}] = [stateDB EXCEPT !.trie = {}]
               /\ IF txi < Len(simulations)
                  THEN txi' = txi + 1 /\ pc' = "unoptimal"
                  ELSE pc' = "done"]_vars
    /\ [][(api = "SimulateBundle" /\ pass = 2 /\ txi' # txi) => pc = "executed"]_vars

\* C22 witness: a bundle of two transactions has returned; their captured
\* lists differ, their results differ, and the working state is the one
\* reopened after the second commit.
C22_Witness ==
    /\ api = "SimulateBundle" /\ Done /\ Len(result) = 2
    /\ recordAccessLists[1] # recordAccessLists[2]
    /\ result[1].ret # result[2].ret
    /\ Target \in stateDB.trie
    /\ stateDB.trie = stateDB.exist

\* the frame that executes the next opcode
Top == frames[Len(frames)]

\* C23: a storage read of a slot the program wrote earlier in the run leaves
\* the value of the slot as it was, so that the read returns what was written.
C23_ReadAfterWrite ==
    [][(/\ pc = "run" /\ pc' \in {"run", "executed"}
        /\ GetOp(Top).op = "SLOAD" /\ Len(Top.stack) >= 1
        /\ <<Top.self, Peek(Top.stack)>> \in hist.written)
          => GetState(stateDB', Top.self, Peek(Top.stack))
                = GetState(stateDB, Top.self, Peek(Top.stack))]_vars

\* C24: once pass 1 of Simulate has succeeded, pass 2 does not fail, unless
\* the remote source fails to answer.
C24_SecondPassSucceeds ==
    (api = "Simulate" /\ pass = 2 /\ pc = "failed") => err = FetchError

\* C25: the accounting pass of SimulateBundle, reached when the discovery run
\* of every transaction has succeeded, does not fail for lack of balance.
C25_NoDoubleCounting ==
    (api = "SimulateBundle" /\ pass = 2 /\ pc = "failed")
        => err \notin {InsufficientBalance, "insufficient balance for transfer"}

\* C26: in the accounting pass of SimulateBundle no step changes a result
\* that is already recorded; in particular its access list stays the one of
\* the accounting run of its transaction.
C26_RecordedResultsKept ==
    [][(api = "SimulateBundle" /\ pass = 2)
          => \A n \in 1 .. Len(result) :
                Len(result') >= n => result'[n] = result[n]]_vars

\* the address and the value a call-class opcode of the top frame names
CallAddr == Top.stack[Len(Top.stack) - 1]

CallValue == Top.stack[Len(Top.stack) - 2]

\* C27: a CALL or CALLCODE that is not aborted, whose value exceeds the local
\* balance of its target, the target not being in BalanceSet, asks the remote
\* source for the balance of the target.
C27_BalanceFetchedForValueCalls ==
    [][(/\ pc = "run" /\ pc' \in {"run", "executed"}
        /\ GetOp(Top).op \in {"CALL", "CALLCODE"} /\ Len(Top.stack) >= 3
        /\ CallValue > GetBalance(stateDB, CallAddr)
        /\ CallAddr \notin rec.balSet)
          => rpc'.bal[CallAddr] = rpc.bal[CallAddr] + 1]_vars

\* the hooks of the next opcode, every request answered
Hooked == RunHooks(Top, GetOp(Top).op, HookState(stateDB, rec, rpc), TRUE, TRUE)

\* the next opcode is a CALL or CALLCODE whose hook fetches a balance
FetchesBalance ==
    /\ pc = "run" /\ GetOp(Top).op \in {"CALL", "CALLCODE"} /\ Len(Top.stack) >= 3
    /\ Hooked.rpc.balOk[CallAddr] = rpc.balOk[CallAddr] + 1

\* C28: when the call hook has fetched the balance of the target, either the
\* remote balance covers the value, the difference added is not negative, the
\* local balance becomes the remote one and the target enters BalanceSet, or
\* it does not cover it and neither the balance nor BalanceSet changes.
C28_TopUpExact ==
    FetchesBalance
        => IF remote.bal[CallAddr] >= CallValue
           THEN /\ remote.bal[CallAddr] >= GetBalance(stateDB, CallAddr)
                /\ GetBalance(Hooked.db, CallAddr) = remote.bal[CallAddr]
                /\ Hooked.rec.balSet = rec.balSet \cup {CallAddr}
           ELSE /\ GetBalance(Hooked.db, CallAddr) = GetBalance(stateDB, CallAddr)
                /\ Hooked.rec.balSet = rec.balSet

\* C28 witness: the target of the call holds a local balance that is positive
\* and below the value, the remote balance is above the value.
C28_Witness ==
    /\ FetchesBalance
    /\ GetBalance(stateDB, CallAddr) > 0
    /\ remote.bal[CallAddr] > CallValue
    /\ GetBalance(Hooked.db, CallAddr) = remote.bal[CallAddr]

\* C29: only SLOAD and SSTORE change the access list of a run: a step of
\* any other opcode, a call-class opcode or an external-code read with the
\* fetches of its hook included, leaves the list as it is, and every entry
\* of the list names an address of which the run touched a slot.
C29_OnlyStorageOpcodesListed ==
    /\ [](pc \in {"run", "executed"}
            => /\ SlotsOf(in.accessList) \subseteq Touched
               /\ \A n \in 1 .. Len(in.accessList) :
                    in.accessList[n].storageKeys # <<>>)
    /\ [][(pc = "run" /\ GetOp(Top).op \notin {"SLOAD", "SSTORE"})
            => in'.accessList = in.accessList]_vars

\* C29 witness: a call whose program touches two slots of the target and
\* calls address 2, which holds no code; the code of address 2 was fetched
\* and the returned list has the one entry of the target.
C29_Witness ==
    /\ api = "Simulate" /\ Done /\ hist.code = 4
    /\ rpc.codeOk[2] > 0
    /\ result[1].accessList = <<[address |-> Target, storageKeys |-> <<0, 1>>]>>

\* C30: every slot a run has touched with SLOAD or SSTORE is in the access
\* list of that run, whether or not the slot was in StorageSet when the run
\* began; so the list Simulate returns holds every slot pass 2 touched.
C30_TouchedSlotsListed ==
    /\ pc \in {"run", "executed"} => Touched \subseteq SlotsOf(in.accessList)
    /\ (api = "Simulate" /\ Done) => Touched \subseteq SlotsOf(result[1].accessList)

\* C30 witness: Simulate has returned; a slot that was in StorageSet of the
\* caller's record, and was therefore never fetched, was touched by pass 2
\* and is in the returned list.
C30_Witness ==
    /\ api = "Simulate" /\ Done /\ prior = "given"
    /\ \E k \in Touched :
         /\ rpc.stor[k] = 0
         /\ k \in SlotsOf(result[1].accessList)
         /\ k \in SlotsOf(run1.accessList)

\* the balance of the sender of the current transaction as the entry point
\* knows it: the local one, or the remote one when the local one is not positive
KnownBalance ==
    LET from == simulations[txi].from
    IN IF GetBalance(stateDB, from) <= 0 THEN remote.bal[from]
       ELSE GetBalance(stateDB, from)

\* C31: a call that has failed with the insufficient-balance error of the
\* entry point knew a sender balance smaller than Value; a balance equal to
\* Value is not refused.
C31_RefusedOnlyBelowValue ==
    (pc = "failed" /\ err = InsufficientBalance)
        => KnownBalance < simulations[txi].value

\* C32: in the first run of a call that was given no record, every address
\* of CodeSet exists in the state with the code fetched for it, or supplied
\* for it when it is the target, and every slot of StorageSet holds in the
\* state the value recorded for it, unless the program has written the slot.
C32_SetsMatchState ==
    (/\ prior = "nil" /\ pass = 1 /\ txi = 1 /\ pc \in {"run", "executed"})
        => /\ \A a \in rec.codeSet :
                /\ Exist(stateDB, a)
                /\ \/ GetCode(stateDB, a) = remote.code[a]
                   \/ a = simulations[1].to /\ GetCode(stateDB, a) = cur.code
           /\ \A k \in Key :
                KeyOf(k[1], k[2]) \in DOMAIN rec.storSet
                   => \/ GetState(stateDB, k[1], k[2]) = rec.storSet[KeyOf(k[1], k[2])]
                      \/ k \in hist.written

\* C33: when the Simulation carries code, each pass of Simulate executes that
\* code at the target.
C33_SuppliedCodeExecuted ==
    (/\ api = "Simulate" /\ simulations[1].code # 0
     /\ pc \in {"run", "executed", "ideal", "done"})
        => hist.code = simulations[1].code

\* C34: SimulateBundle of an empty list does not fail, and the list it
\* returns is empty.
C34_EmptyBundleReturnsEmpty ==
    (api = "SimulateBundle" /\ simulations = <<>>)
        => /\ pc # "failed"
           /\ Done => result = <<>>

\* C35: no step of a call removes a member of CodeSet, of BalanceSet or of
\* StorageSet, or replaces the value recorded for a slot.
C35_SetsOnlyGrow ==
    [][/\ rec.codeSet \subseteq rec'.codeSet
       /\ rec.balSet \subseteq rec'.balSet
       /\ \A key \in DOMAIN rec.storSet :
            /\ key \in DOMAIN rec'.storSet
            /\ rec'.storSet[key] = rec.storSet[key]]_vars

\* C35 witness: the discovery pass of a bundle of two transactions has ended;
\* the second transaction added a slot to the StorageSet the first had left,
\* and its run added an address to CodeSet or found the target there.
C35_Witness ==
    /\ api = "SimulateBundle" /\ pass = 1 /\ pc = "ideal"
    /\ Len(recordAccessLists) = 2
    /\ SlotsOf(recordAccessLists[1]) # SlotsOf(recordAccessLists[2])
    /\ Cardinality(DOMAIN rec.storSet) = 2
    /\ rpc.storOk[<<Target, 0>>] = 1 /\ rpc.storOk[<<Target, 1>>] = 1
    /\ Target \in rec.codeSet

====
